---- MODULE Spec2Model ----
(***************************************************************************)
(* Model of slp-rec (src/index.js): the replay decoder of recordSlp        *)
(* (getRawDataPosition, getMessageSizes, the walk loop), the scratch       *)
(* directory handling of recordSlp and the engine supervisor execSlippi.   *)
(*                                                                         *)
(* JavaScript values that can be a number, undefined or NaN are records    *)
(* [t, n]: Num(n), Undefined, NaN.  Text lines are sequences of            *)
(* one-character strings.  Buffers are sequences of bytes, indexed from 0  *)
(* through ByteAt as the code indexes them.                                *)
(***************************************************************************)
EXTENDS Integers, Sequences, FiniteSets, TLC

\* ------------------------------------------------------------------------
\* Bounds of the model
\* ------------------------------------------------------------------------
MaxLines == 3
MaxBody == 6
MaxShort == 2

\* ------------------------------------------------------------------------
\* JavaScript values
\* ------------------------------------------------------------------------
Undefined == [t |-> "undefined", n |-> 0]
NaN == [t |-> "NaN", n |-> 0]
Num(n) == [t |-> "num", n |-> n]
IsNum(v) == v.t = "num"

\* a < b for a JavaScript value a and a number b: false for NaN, undefined
JsLess(a, b) == IsNum(a) /\ a.n < b

\* a >= b for a JavaScript value a and a number b: false for NaN, undefined
JsGreaterEq(a, b) == IsNum(a) /\ a.n >= b

\* a > b for two JavaScript values: false as soon as one is NaN or undefined
JsGreater(a, b) == IsNum(a) /\ IsNum(b) /\ a.n > b.n

\* 1 + v: NaN when v is undefined or NaN
OnePlus(v) == IF IsNum(v) THEN Num(1 + v.n) ELSE NaN

\* p + s for the cursor: NaN as soon as one operand is NaN
JsAdd(p, s) == IF IsNum(p) /\ IsNum(s) THEN Num(p.n + s.n) ELSE NaN

\* ToInt32 of a byte read: undefined becomes 0
ToInt32(v) == IF IsNum(v) THEN v.n ELSE 0

\* ------------------------------------------------------------------------
\* Program constants
\* ------------------------------------------------------------------------
MESSAGE_SIZES == 53
GAME_START == 54
PRE_FRAME_UPDATE == 55
POST_FRAME_UPDATE == 56
GAME_END == 57
OPEN_BRACE == 123
GAME_FIRST_FRAME == 0 - 123
PREFIX == <<"[", "C", "U", "R", "R", "E", "N", "T", "_", "F", "R", "A", "M", "E", "]">>

\* ------------------------------------------------------------------------
\* Buffers (Node Buffer: bytes, indexed from 0, undefined out of range)
\* ------------------------------------------------------------------------
ByteAt(buffer, i) ==
    IF i >= 0 /\ i < Len(buffer) THEN Num(buffer[i + 1]) ELSE Undefined

\* A property lookup in the messageSizes object: undefined when absent.
\* Keys are the JavaScript values used as property names.
Lookup(table, key) == IF key \in DOMAIN table THEN table[key] ELSE Undefined

\* messageSizes[key] = value: adds the property or overwrites it
Assign(table, key, value) ==
    [k \in (DOMAIN table) \cup {key} |-> IF k = key THEN value ELSE table[k]]

\* the empty object {}
EmptyTable == [k \in {} |-> Undefined]

\* a legacy table that also knows the item update code
LegacyTableWithItems ==
    (Num(GAME_START) :> Num(320)) @@ (Num(PRE_FRAME_UPDATE) :> Num(6))
    @@ (Num(POST_FRAME_UPDATE) :> Num(70)) @@ (Num(GAME_END) :> Num(1))
    @@ (Num(59) :> Num(42))

\* the table of the old file format
LegacyTable ==
    (Num(GAME_START) :> Num(320)) @@ (Num(PRE_FRAME_UPDATE) :> Num(6))
    @@ (Num(POST_FRAME_UPDATE) :> Num(70)) @@ (Num(GAME_END) :> Num(1))

\* a size read with the two length bytes in the wrong order
CommandSizeSwapped(buffer, position, i) ==
    Num(ToInt32(ByteAt(buffer, position + i + 4)) * 256
        + ToInt32(ByteAt(buffer, position + i + 3)))

\* (buffer[position + i + 3] << 8) | buffer[position + i + 4]
CommandSize(buffer, position, i) ==
    Num(ToInt32(ByteAt(buffer, position + i + 3)) * 256
        + ToInt32(ByteAt(buffer, position + i + 4)))

\* for (let i = 0; i < payloadLength - 1; i += 3) { ... }, from index i on
RECURSIVE SizesLoop(_, _, _, _, _)
SizesLoop(buffer, position, payloadLength, i, table) ==
    IF IsNum(payloadLength) /\ i < payloadLength.n - 1
    THEN SizesLoop(buffer, position, payloadLength, i + 3,
                   Assign(table, ByteAt(buffer, position + i + 2),
                          CommandSize(buffer, position, i)))
    ELSE table

getMessageSizes(buffer, position) ==
    IF position = 0 THEN LegacyTable
    ELSE IF ByteAt(buffer, position) # Num(MESSAGE_SIZES) THEN EmptyTable
    ELSE LET payloadLength == ByteAt(buffer, position + 1)
         IN  SizesLoop(buffer, position, payloadLength, 0,
                       Assign(EmptyTable, Num(MESSAGE_SIZES), payloadLength))

getRawDataPosition(buffer) ==
    IF ByteAt(buffer, 0) = Num(GAME_START) THEN 0
    ELSE IF ByteAt(buffer, 0) # Num(OPEN_BRACE) THEN 0
    ELSE 15

\* a walk that clears the byte at 0x68 of the game start record
WalkBufferClearsPort(buffer, pos) ==
    IF ByteAt(buffer, pos.n) = Num(GAME_START) /\ 104 + pos.n < Len(buffer)
    THEN [buffer EXCEPT ![104 + pos.n + 1] = 0]
    ELSE buffer

\* the buffer after const cmd = buffer[pos] and the branch on GAME_START,
\* whose body is empty
WalkBuffer(buffer, pos) == buffer

\* the loop condition of the walk: pos < buffer.length
WalkContinues(buffer, pos) == JsLess(pos, Len(buffer))

\* a walk that stays where it is when the code has no entry
WalkAdvanceSkipMiss(buffer, table, pos) ==
    IF ByteAt(buffer, pos.n) \in DOMAIN table
    THEN JsAdd(pos, OnePlus(Lookup(table, ByteAt(buffer, pos.n))))
    ELSE pos

\* a walk that forgets the code byte of each record
WalkAdvanceNoCode(buffer, table, pos) ==
    JsAdd(pos, Lookup(table, ByteAt(buffer, pos.n)))

\* pos += 1 + messageSizes[buffer[pos]]
WalkAdvance(buffer, table, pos) ==
    JsAdd(pos, OnePlus(Lookup(table, ByteAt(buffer, pos.n))))

\* ------------------------------------------------------------------------
\* Text lines of the engine's standard output
\* ------------------------------------------------------------------------
DigitValue ==
    ("0" :> 0) @@ ("1" :> 1) @@ ("2" :> 2) @@ ("3" :> 3) @@ ("4" :> 4)
    @@ ("5" :> 5) @@ ("6" :> 6) @@ ("7" :> 7) @@ ("8" :> 8) @@ ("9" :> 9)
IsDigit(c) == c \in DOMAIN DigitValue
IsSpace(c) == c = " "

\* stdoutLine.startsWith(p)
StartsWith(s, p) == Len(s) >= Len(p) /\ SubSeq(s, 1, Len(p)) = p

\* s.substring(k)
Substring(s, k) == SubSeq(s, k + 1, Len(s))

RECURSIVE TrimStart(_)
TrimStart(s) == IF s # <<>> /\ IsSpace(Head(s)) THEN TrimStart(Tail(s)) ELSE s

RECURSIVE TrimEnd(_)
TrimEnd(s) ==
    IF s # <<>> /\ IsSpace(s[Len(s)]) THEN TrimEnd(SubSeq(s, 1, Len(s) - 1)) ELSE s

\* s.trim()
Trim(s) == TrimEnd(TrimStart(s))

\* the value of the longest run of decimal digits of s from index i on
RECURSIVE ParseDigits(_, _, _)
ParseDigits(s, i, acc) ==
    IF i <= Len(s) /\ IsDigit(s[i])
    THEN ParseDigits(s, i + 1, acc * 10 + DigitValue[s[i]])
    ELSE acc

\* parseInt(s) without a radix, for text with no "0x" prefix: leading white
\* space skipped, an optional sign, then the longest run of decimal digits;
\* NaN when there is no digit at that place.  What follows the digits is
\* dropped.
parseInt(s) ==
    LET t == TrimStart(s)
        signed == t # <<>> /\ Head(t) \in {"+", "-"}
        body == IF signed THEN Tail(t) ELSE t
        sign == IF signed /\ Head(t) = "-" THEN 0 - 1 ELSE 1
    IN  IF body = <<>> \/ ~IsDigit(Head(body)) THEN NaN
        ELSE Num(sign * ParseDigits(body, 1, 0))

\* a test that finds the marker anywhere in the line
HasPrefixAnywhere(line) ==
    \E i \in 1..(Len(line) - Len(PREFIX) + 1) :
        SubSeq(line, i, i + Len(PREFIX) - 1) = PREFIX

\* stdoutLine.startsWith('[CURRENT_FRAME]')
HasPrefix(line) == StartsWith(line, PREFIX)

\* parseInt(stdoutLine.substring(15).trim())
LineFrame(line) == parseInt(Trim(Substring(line, Len(PREFIX))))

\* an update that keeps the frame of the last line
NewLatestLast(latest, current) == current

\* if (latestFrame === undefined || currentFrame > latestFrame) latestFrame = currentFrame
NewLatest(latest, current) ==
    IF latest = Undefined \/ JsGreater(current, latest) THEN current ELSE latest

\* a completion test that misses the target frame itself
ReachedTargetStrict(latest, last) == IsNum(latest) /\ latest.n > last

\* latestFrame >= lastFrame
ReachedTarget(latest, last) == JsGreaterEq(latest, last)

\* a loop without the break
AfterLineNoBreak(reached) == "watch"

\* where the loop goes after a prefixed line: break once the target is
\* reached (the iterator is then closed), the next line otherwise
AfterLine(reached) == IF reached THEN "closing" ELSE "watch"

\* ------------------------------------------------------------------------
\* Inputs
\* ------------------------------------------------------------------------
\* what the engine may write after the prefix, or as a line of its own
Tails ==
    { <<>>, <<" ">>, <<"x">>, <<"-">>,
      <<" ", "1">>, <<" ", "2">>, <<" ", "1", "2">>, <<" ", "2", "1">>,
      <<" ", "-", "1">>, <<" ", "1", "x">>, <<" ", "x", "1">>,
      <<" ", "1", "2", " ">> }
\* engine chatter that holds the marker, but not at its start
MarkedChatter == <<"x">> \o PREFIX \o <<" ", "1", "2">>

Lines == {PREFIX \o t : t \in Tails} \cup Tails \cup {MarkedChatter}

\* the last frame the statistics of the replay may report
TargetFrames == {0 - 1, 2, 12}

SeqsUpTo(S, n) == UNION {[1..k -> S] : k \in 0..n}

\* the 15 bytes before the raw data of the current file format
Envelope == <<123, 85, 3, 114, 97, 119, 91, 36, 85, 35, 108, 0, 0, 0, 0>>

\* a game start record of the old format: the code and 0x140 bytes
GameStartRecord == <<GAME_START>> \o [i \in 1..320 |-> 0]

BodyBytes == {MESSAGE_SIZES, PRE_FRAME_UPDATE, 0, 1, 4}
ShortBytes == {GAME_START, PRE_FRAME_UPDATE, GAME_END, 0, OPEN_BRACE}

\* one (code, length-high, length-low) triple of a message-sizes event
Triples ==
    {<<c, h, l>> : c \in {PRE_FRAME_UPDATE, POST_FRAME_UPDATE, MESSAGE_SIZES},
                   h \in {0, 1}, l \in {0, 2}}

\* replays of the current format whose message-sizes event holds two triples
TwoTripleBuffers ==
    {Envelope \o <<MESSAGE_SIZES, 7>> \o t1 \o t2 : t1 \in Triples, t2 \in Triples}

Buffers ==
    {Envelope \o b : b \in SeqsUpTo(BodyBytes, MaxBody)}
    \cup SeqsUpTo(ShortBytes, MaxShort)
    \cup {GameStartRecord \o b : b \in SeqsUpTo(ShortBytes, MaxShort)}
    \cup TwoTripleBuffers

\* the replays of the whole-operation specification
SampleBuffers ==
    { <<>>, <<0>>, <<OPEN_BRACE>>,
      GameStartRecord \o <<GAME_END, 0>>,
      <<GAME_START>> \o [i \in 1..320 |-> 1] \o <<GAME_END, 0>>,
      Envelope \o <<PRE_FRAME_UPDATE, 0>>,
      Envelope \o <<MESSAGE_SIZES, 4, PRE_FRAME_UPDATE, 0, 1, PRE_FRAME_UPDATE, 0>>,
      Envelope \o <<MESSAGE_SIZES, 4, PRE_FRAME_UPDATE, 0, 1, GAME_END, 0>> }

\* the command line overrides: each frame option is a number or undefined
AllOptions ==
    [startFrame : {Undefined, Num(GAME_FIRST_FRAME), Num(0), Num(5)},
     totalFrames : {Undefined, Num(0), Num(100)}]

\* the overrides of the whole-operation specification
SampleOptions ==
    { [startFrame |-> Undefined, totalFrames |-> Undefined],
      [startFrame |-> Num(5), totalFrames |-> Num(100)] }

\* the names wd-<timestamp>-<hash>-<pid> of the scratch directory
WorkIds == {"wd-1700000000-77-4242", "wd-1700000001-91-4243"}

\* paths are sequences of components
WorkRoot == <<"tmp", "slp-rec", "work">>
PathJoin(dir, name) == Append(dir, name)
Dirname(p) == SubSeq(p, 1, Len(p) - 1)
Basename(p) == p[Len(p)]

\* const recordJson = { ...RECORD_JSON_BASE, replay }
RecordJsonBase(replay) ==
    ("mode" :> "normal") @@ ("isRealTimeMode" :> FALSE) @@ ("replay" :> replay)

\* an instruction that always carries startFrame
mkRecordJsonAlwaysStart(replay, opts) ==
    LET startFrame == IF opts.startFrame # Undefined
                      THEN opts.startFrame.n ELSE GAME_FIRST_FRAME
        base == RecordJsonBase(replay)
                @@ ("commandId" :> Basename(Dirname(replay)))
                @@ ("startFrame" :> startFrame)
    IN  IF opts.totalFrames # Undefined
        THEN base @@ ("endFrame" :> startFrame + opts.totalFrames.n)
        ELSE base

mkRecordJson(replay, opts) ==
    LET startFrame == IF opts.startFrame # Undefined
                      THEN opts.startFrame.n ELSE GAME_FIRST_FRAME
        base == RecordJsonBase(replay) @@ ("commandId" :> Basename(Dirname(replay)))
        withStart == IF opts.startFrame # Undefined
                     THEN base @@ ("startFrame" :> startFrame) ELSE base
    IN  IF opts.totalFrames # Undefined
        THEN withStart @@ ("endFrame" :> startFrame + opts.totalFrames.n)
        ELSE withStart

\* ------------------------------------------------------------------------
\* State
\* ------------------------------------------------------------------------
VARIABLES
    options,        \* the parsed command line: startFrame, totalFrames
    workId,         \* the name of the scratch directory
    recordJson,     \* the instruction written to record.json
    pc,             \* where recordSlp / execSlippi stands
    outcome,        \* "pending", "returned" or "threw"
    inputExists,    \* whether the file named on the command line exists
    inputFile,      \* its bytes
    workDir,        \* whether the scratch directory exists
    written,        \* the files of the scratch directory
    slpFile,        \* the bytes of input.slp in the scratch directory
    buffer,         \* recordSlp: buffer
    rawPosition,    \* recordSlp: rawPosition
    messageSizes,   \* recordSlp: messageSizes
    pos,            \* recordSlp: pos
    walkSteps,      \* iterations of the walk loop done
    lastFrame,      \* recordSlp: lastFrame
    spawned,        \* whether the engine process was started
    killCount,      \* calls of slippiProcess.kill()
    recordedFrames, \* execSlippi: recordedFrames
    latestFrame,    \* execSlippi: latestFrame
    stdoutLine,     \* execSlippi: stdoutLine, the line consumed last
    nLines          \* lines consumed

vars == <<options, workId, recordJson, pc, outcome, inputExists, inputFile, workDir, written, slpFile, buffer,
          rawPosition, messageSizes, pos, walkSteps, lastFrame, spawned,
          killCount, recordedFrames, latestFrame, stdoutLine, nLines>>

fileVars == <<inputExists, inputFile, options, workId>>
dirVars == <<workDir, written, slpFile, recordJson>>
decodeVars == <<buffer, rawPosition, messageSizes, pos, walkSteps>>
execVars == <<spawned, killCount, recordedFrames, latestFrame, stdoutLine, nLines>>

\* the state when recordSlp is called on a file, with the command line parsed
InitWith(files, overrides, ids) ==
    /\ options \in overrides
    /\ workId \in ids
    /\ recordJson = <<>>
    /\ pc = "mkdirp"
    /\ outcome = "pending"
    /\ inputExists \in BOOLEAN
    /\ inputFile \in files
    /\ workDir = FALSE
    /\ written = {}
    /\ slpFile = <<>>
    /\ buffer = <<>>
    /\ rawPosition = 0
    /\ messageSizes = EmptyTable
    /\ pos = Undefined
    /\ walkSteps = 0
    /\ lastFrame = 0
    /\ spawned = FALSE
    /\ killCount = 0
    /\ recordedFrames = {}
    /\ latestFrame = Undefined
    /\ stdoutLine = <<>>
    /\ nLines = 0

InitOn(files) == InitWith(files, SampleOptions, {"wd-1700000000-77-4242"})

Init == InitOn(SampleBuffers)

\* ------------------------------------------------------------------------
\* recordSlp
\* ------------------------------------------------------------------------
\* await mkdirp(workDir)
Mkdirp ==
    /\ pc = "mkdirp"
    /\ workDir' = TRUE
    /\ pc' = "read"
    /\ UNCHANGED <<outcome, fileVars, written, slpFile, recordJson, decodeVars,
                   lastFrame, execVars>>

\* fs.readFile, getRawDataPosition, getMessageSizes, let pos = rawPosition
ReadFile ==
    /\ pc = "read"
    /\ inputExists
    /\ buffer' = inputFile
    /\ rawPosition' = getRawDataPosition(inputFile)
    /\ messageSizes' = getMessageSizes(inputFile, getRawDataPosition(inputFile))
    /\ pos' = Num(getRawDataPosition(inputFile))
    /\ pc' = "walk"
    /\ UNCHANGED <<outcome, fileVars, dirVars, walkSteps, lastFrame, execVars>>

\* fs.readFile rejects: recordSlp throws
ReadFileFails ==
    /\ pc = "read"
    /\ ~inputExists
    /\ pc' = "threw"
    /\ outcome' = "threw"
    /\ UNCHANGED <<fileVars, dirVars, decodeVars, lastFrame, execVars>>

\* one iteration of while (pos < buffer.length)
WalkStep ==
    /\ pc = "walk"
    /\ WalkContinues(buffer, pos)
    /\ pos' = WalkAdvance(buffer, messageSizes, pos)
    /\ walkSteps' = walkSteps + 1
    /\ buffer' = WalkBuffer(buffer, pos)
    /\ UNCHANGED <<pc, outcome, fileVars, dirVars, rawPosition,
                   messageSizes, lastFrame, execVars>>

\* the loop condition fails: on to writing input.slp
WalkExit ==
    /\ pc = "walk"
    /\ ~WalkContinues(buffer, pos)
    /\ pc' = "write"
    /\ UNCHANGED <<outcome, fileVars, dirVars, decodeVars, lastFrame, execVars>>

\* await fs.writeFile(slpFile, buffer)
WriteInput ==
    /\ pc = "write"
    /\ slpFile' = buffer
    /\ written' = written \cup {"input.slp"}
    /\ pc' = "json"
    /\ UNCHANGED <<outcome, fileVars, workDir, recordJson, decodeVars, lastFrame, execVars>>

\* writeRecordJson called without await: recordSlp goes on while the write
\* is still pending
WriteRecordJsonNotAwaited ==
    /\ pc = "json"
    /\ pc' = "stats"
    /\ UNCHANGED <<outcome, fileVars, dirVars, decodeVars, lastFrame, execVars>>

\* await writeRecordJson(workDir)
WriteRecordJson ==
    /\ pc = "json"
    /\ recordJson' = mkRecordJson(PathJoin(PathJoin(WorkRoot, workId), "input.slp"), options)
    /\ written' = written \cup {"record.json"}
    /\ pc' = "stats"
    /\ UNCHANGED <<outcome, fileVars, workDir, slpFile, decodeVars, lastFrame, execVars>>

\* game.getStats() gives statistics: lastFrame = stats.lastFrame
GetStats ==
    /\ pc = "stats"
    /\ \E f \in TargetFrames : lastFrame' = f
    /\ pc' = "spawn"
    /\ UNCHANGED <<outcome, fileVars, dirVars, decodeVars, execVars>>

\* game.getStats() gives null: stats.lastFrame throws
GetStatsNull ==
    /\ pc = "stats"
    /\ pc' = "threw"
    /\ outcome' = "threw"
    /\ UNCHANGED <<fileVars, dirVars, decodeVars, lastFrame, execVars>>

\* console.log, await fs.rm(workDir, { recursive: true, force: true })
Cleanup ==
    /\ pc = "supervised"
    /\ workDir' = FALSE
    /\ written' = {}
    /\ pc' = "done"
    /\ outcome' = "returned"
    /\ UNCHANGED <<fileVars, slpFile, recordJson, decodeVars, lastFrame, execVars>>

\* ------------------------------------------------------------------------
\* execSlippi
\* ------------------------------------------------------------------------
\* const slippiProcess = execa(...), with the fresh progress state
Spawn ==
    /\ pc = "spawn"
    /\ spawned' = TRUE
    /\ recordedFrames' = {}
    /\ latestFrame' = Undefined
    /\ pc' = "watch"
    /\ UNCHANGED <<outcome, fileVars, dirVars, decodeVars, lastFrame, killCount,
                   stdoutLine, nLines>>

\* one iteration of for await (const stdoutLine of slippiProcess)
ReadLine(line) ==
    /\ pc = "watch"
    /\ nLines < MaxLines
    /\ stdoutLine' = line
    /\ nLines' = nLines + 1
    /\ IF HasPrefix(line)
       THEN LET currentFrame == LineFrame(line)
                latest == NewLatest(latestFrame, currentFrame)
                reached == ReachedTarget(latest, lastFrame)
            IN  /\ recordedFrames' = recordedFrames \cup {currentFrame}
                /\ latestFrame' = latest
                /\ killCount' = IF reached THEN killCount + 1 ELSE killCount
                /\ pc' = AfterLine(reached)
       ELSE UNCHANGED <<recordedFrames, latestFrame, killCount, pc>>
    /\ UNCHANGED <<outcome, fileVars, dirVars, decodeVars, lastFrame, spawned>>

\* the engine's output ends: the loop ends and execSlippi returns
StreamEnd ==
    /\ pc = "watch"
    /\ pc' = "supervised"
    /\ UNCHANGED <<outcome, fileVars, dirVars, decodeVars, lastFrame, execVars>>

\* the break closes the iterator of the killed process and the loop is left:
\* execSlippi returns
IteratorCloses ==
    /\ pc = "closing"
    /\ pc' = "supervised"
    /\ UNCHANGED <<outcome, fileVars, dirVars, decodeVars, lastFrame, execVars>>

\* closing the iterator rejects, the killed process being reported as
\* failed: execSlippi and recordSlp throw
IteratorCloseRejects ==
    /\ pc = "closing"
    /\ pc' = "threw"
    /\ outcome' = "threw"
    /\ UNCHANGED <<fileVars, dirVars, decodeVars, lastFrame, execVars>>

\* reading the engine's output rejects: execSlippi and recordSlp throw
StreamFails ==
    /\ pc = "watch"
    /\ pc' = "threw"
    /\ outcome' = "threw"
    /\ UNCHANGED <<fileVars, dirVars, decodeVars, lastFrame, execVars>>

\* ------------------------------------------------------------------------
\* Specifications
\* ------------------------------------------------------------------------
\* the whole recording operation on the sample replays
Next ==
    \/ Mkdirp
    \/ ReadFile
    \/ ReadFileFails
    \/ WalkStep
    \/ WalkExit
    \/ WriteInput
    \/ WriteRecordJson
    \/ GetStats
    \/ GetStatsNull
    \/ Spawn
    \/ \E line \in Lines : ReadLine(line)
    \/ StreamEnd
    \/ StreamFails
    \/ IteratorCloses
    \/ IteratorCloseRejects
    \/ Cleanup

Spec == Init /\ [][Next]_vars

\* the decoding pass of recordSlp on every replay of Buffers
InitDecode ==
    /\ InitWith(Buffers, {[startFrame |-> Undefined, totalFrames |-> Undefined]},
                {"wd-1700000000-77-4242"})
    /\ inputExists

NextDecode ==
    \/ Mkdirp
    \/ ReadFile
    \/ WalkStep
    \/ WalkExit

SpecDecode == InitDecode /\ [][NextDecode]_vars

\* recordSlp up to the written instruction file, on the sample replays with
\* every combination of overrides
InitCompile == InitWith(SampleBuffers, AllOptions, WorkIds) /\ inputExists

NextCompile ==
    \/ Mkdirp
    \/ ReadFile
    \/ WalkStep
    \/ WalkExit
    \/ WriteInput
    \/ WriteRecordJson

SpecCompile == InitCompile /\ [][NextCompile]_vars

\* ------------------------------------------------------------------------
\* Properties
\* ------------------------------------------------------------------------
\* the completion condition on the supervisor's state
TargetReached == IsNum(latestFrame) /\ latestFrame.n >= lastFrame

\* a line is consumed in this step
LineConsumed == nLines' = nLines + 1

\* C1: every line is consumed while the target is not yet reached and no
\* termination was requested; the line after which latestFrame >= lastFrame is
\* the one at which the termination request is issued and the loop is left.
C1_KillAtFirstReach ==
    [][LineConsumed =>
        /\ ~TargetReached
        /\ killCount = 0
        /\ (TargetReached' <=> killCount' = 1)
        /\ (TargetReached' => pc' = "closing")
        /\ (~TargetReached' => pc' = "watch")]_vars

\* C1 witness: the termination request comes at the third line, after two
\* prefixed lines that did not reach the target, and the loop has been left.
C1_Witness ==
    /\ killCount = 1
    /\ nLines = 3
    /\ Cardinality(recordedFrames) = 3
    /\ pc = "closing"

\* C2: when the operation returns as a success, the target was reached: a
\* stream that ends before the target is never a success.
C2_IncompleteIsReported == outcome = "returned" => TargetReached

\* the event code at the cursor has no entry in the size table
MissAtCursor ==
    /\ pc = "walk"
    /\ WalkContinues(buffer, pos)
    /\ ByteAt(buffer, pos.n) \notin DOMAIN messageSizes

\* C3: a code with no table entry met by the walk raises an error: the
\* cursor is never non-numeric and the walk does not go on to the next stage.
C3_MissRaisesError ==
    [][MissAtCursor => (outcome' = "threw" /\ pos' # NaN /\ pc' # "write")]_vars

\* C4: once the operation has returned or failed, the scratch directory does
\* not exist.
C4_ScratchRemoved == outcome \in {"returned", "threw"} => ~workDir

\* b has a leading byte, which is neither the game start code nor '{'
UnknownLeadingByte(b) ==
    Len(b) > 0 /\ ByteAt(b, 0) \notin {Num(GAME_START), Num(OPEN_BRACE)}

SizesEventAbsent(b) ==
    ByteAt(b, 0) = Num(OPEN_BRACE) /\ ByteAt(b, 15) # Num(MESSAGE_SIZES)

\* C5: the engine is never started on a malformed replay (unknown leading
\* byte, message-sizes event absent, or a walk that met a code with no entry).
C5_MalformedNeverSpawns ==
    spawned => ~(UnknownLeadingByte(buffer) \/ SizesEventAbsent(buffer) \/ pos = NaN)

\* C6: a prefixed line whose value does not parse leaves recordedFrames and
\* latestFrame as they were and requests no termination.
C6_UnparseableIgnored ==
    [][(LineConsumed /\ HasPrefix(stdoutLine') /\ LineFrame(stdoutLine') = NaN) =>
        /\ recordedFrames' = recordedFrames
        /\ latestFrame' = latestFrame
        /\ killCount' = killCount]_vars

\* C7: once a prefixed line with a frame >= lastFrame has been consumed, the
\* termination request has been issued, whatever lines came before it.
C7_ParseableLineCompletes ==
    (nLines > 0 /\ HasPrefix(stdoutLine) /\ JsGreaterEq(LineFrame(stdoutLine), lastFrame))
        => killCount >= 1

\* C8: the termination request is issued at most once, exactly once when the
\* target was reached, and only in the step of the loop that detects it.
C8_KillExactlyOnce ==
    /\ [](killCount <= 1)
    /\ [](TargetReached => killCount = 1)
    /\ [][killCount' # killCount =>
            /\ pc = "watch"
            /\ LineConsumed
            /\ ~TargetReached
            /\ TargetReached']_vars

\* C8 witness: a run that reached the target at its second line, requested
\* termination once in that step and has left the loop.
C8_Witness == killCount = 1 /\ TargetReached /\ nLines = 2 /\ pc = "closing"

\* the number of records of the stream of buf from offset p on when every
\* code has a numeric entry in table and the records end exactly at the end
\* of buf; -1 otherwise
RECURSIVE StreamEvents(_, _, _)
StreamEvents(buf, table, p) ==
    IF p = Len(buf) THEN 0
    ELSE IF p > Len(buf) THEN 0 - 1
    ELSE LET key == ByteAt(buf, p)
         IN  IF key \notin DOMAIN table \/ ~IsNum(table[key]) THEN 0 - 1
             ELSE LET rest == StreamEvents(buf, table, p + 1 + table[key].n)
                  IN  IF rest < 0 THEN 0 - 1 ELSE rest + 1

\* the replay read is a stream of records consistent with its size table
Consistent ==
    pc \in {"walk", "write"} /\ StreamEvents(buffer, messageSizes, rawPosition) >= 0

\* C9: on a consistent stream of N records the walk advances N times, each
\* time by 1 + table[code at the cursor], and ends with the cursor at the
\* buffer length.
C9_WalkRoundTrip ==
    /\ []((Consistent /\ pc = "write") =>
            /\ pos = Num(Len(buffer))
            /\ walkSteps = StreamEvents(buffer, messageSizes, rawPosition))
    /\ [][(Consistent /\ walkSteps' # walkSteps) =>
            /\ walkSteps' = walkSteps + 1
            /\ pos' = Num(pos.n + 1 + messageSizes[ByteAt(buffer, pos.n)].n)]_vars

\* C9 witness: a replay of the current format whose message-sizes event
\* declares the pre-frame-update code, followed by one such record, has been
\* walked in two steps to the end of the buffer.
C9_Witness ==
    /\ pc = "write"
    /\ rawPosition = 15
    /\ Num(PRE_FRAME_UPDATE) \in DOMAIN messageSizes
    /\ ByteAt(buffer, 15 + 1 + messageSizes[Num(MESSAGE_SIZES)].n) = Num(PRE_FRAME_UPDATE)
    /\ StreamEvents(buffer, messageSizes, rawPosition) = 2
    /\ walkSteps = 2
    /\ pos = Num(Len(buffer))

\* C10: a buffer whose leading byte is neither 0x36 nor '{' is never given
\* an offset: decoding does not go on with it.
C10_UnknownLeadingByteIsError ==
    pc \in {"walk", "write"} => ~UnknownLeadingByte(buffer)
\* the replay has been read and decoded
Decoded == pc \in {"walk", "write"}

\* C11: for a buffer whose leading byte is 0x36 the raw data offset is 0 and
\* the size table is exactly {0x36: 0x140, 0x37: 0x6, 0x38: 0x46, 0x39: 0x1},
\* whatever follows the leading byte.
C11_LegacyLayout ==
    (Decoded /\ Len(buffer) > 0 /\ buffer[1] = 54) =>
        /\ rawPosition = 0
        /\ DOMAIN messageSizes = {Num(54), Num(55), Num(56), Num(57)}
        /\ messageSizes[Num(54)] = Num(320)
        /\ messageSizes[Num(55)] = Num(6)
        /\ messageSizes[Num(56)] = Num(70)
        /\ messageSizes[Num(57)] = Num(1)

\* C11 witness: a decoded legacy replay with records after the game start
\* record.
C11_Witness == Decoded /\ Len(buffer) > 322 /\ buffer[1] = 54 /\ buffer[322] = 57
\* the decoded replay is of the current format with the message-sizes event
\* at offset 15 and a payload-length byte after it
HasSizesEvent ==
    Decoded /\ Len(buffer) > 16 /\ buffer[1] = 123 /\ buffer[16] = 53

\* the payload-length byte L of the message-sizes event
PayloadLength == buffer[17]

\* the number of triples (L-1)/3
TripleCount == (PayloadLength - 1) \div 3

\* the code and the length of triple j (from 0) of the message-sizes event
TripleCode(j) == ByteAt(buffer, 17 + 3 * j)
TripleSize(j) ==
    Num(ToInt32(ByteAt(buffer, 18 + 3 * j)) * 256 + ToInt32(ByteAt(buffer, 19 + 3 * j)))

\* the table holds (L-1)/3 + 1 entries: one per triple and 0x35 -> L
TableAsDeclared ==
    /\ Cardinality(DOMAIN messageSizes) = TripleCount + 1
    /\ Lookup(messageSizes, Num(53)) = Num(PayloadLength)
    /\ \A j \in 0..(TripleCount - 1) : Lookup(messageSizes, TripleCode(j)) = TripleSize(j)

\* C12 as stated: a leading '{' gives offset 15, and with the message-sizes
\* event at offset 15 and payload length L >= 1 the table is as declared.
C12_SizesTableAsStated ==
    /\ (Decoded /\ Len(buffer) > 0 /\ buffer[1] = 123) => rawPosition = 15
    /\ (HasSizesEvent /\ PayloadLength >= 1) => TableAsDeclared

\* the payload is a whole number of triples, all of them inside the buffer,
\* with pairwise distinct codes other than 0x35
TriplesWellFormed ==
    /\ PayloadLength % 3 = 1
    /\ Len(buffer) >= 16 + PayloadLength
    /\ \A j \in 0..(TripleCount - 1) : TripleCode(j) # Num(53)
    /\ \A j, k \in 0..(TripleCount - 1) : j # k => TripleCode(j) # TripleCode(k)

\* C12 amended: a leading '{' gives offset 15, and the table is as declared
\* when the payload is a whole number of triples that lie inside the buffer
\* and whose codes are pairwise distinct and differ from 0x35.
C12_SizesTable ==
    /\ (Decoded /\ Len(buffer) > 0 /\ buffer[1] = 123) => rawPosition = 15
    /\ (HasSizesEvent /\ TriplesWellFormed) => TableAsDeclared

\* C12 witness: a decoded replay whose message-sizes event holds two
\* well-formed triples, the second with a length above 255.
C12_Witness ==
    /\ HasSizesEvent
    /\ TriplesWellFormed
    /\ TripleCount = 2
    /\ Lookup(messageSizes, TripleCode(1)) = Num(258)
\* the value of a frame override, FIRST_FRAME = -123 standing in for none
StartOrFirst == IF IsNum(options.startFrame) THEN options.startFrame.n ELSE 0 - 123

\* C13: the instruction written carries startFrame exactly when a start
\* override was given (with its value), endFrame exactly when a total was
\* given (start override or -123, plus the total), mode "normal",
\* isRealTimeMode false and the scratch directory's name as commandId.
C13_InstructionFields ==
    "record.json" \in written =>
        /\ ("startFrame" \in DOMAIN recordJson) <=> IsNum(options.startFrame)
        /\ IsNum(options.startFrame) => recordJson["startFrame"] = options.startFrame.n
        /\ ("endFrame" \in DOMAIN recordJson) <=> IsNum(options.totalFrames)
        /\ IsNum(options.totalFrames) =>
               recordJson["endFrame"] = StartOrFirst + options.totalFrames.n
        /\ recordJson["mode"] = "normal"
        /\ recordJson["isRealTimeMode"] = FALSE
        /\ recordJson["commandId"] = workId

\* C13 witness: totalFrames 100 and no start override gave an instruction
\* without startFrame and with endFrame -23.
C13_Witness ==
    /\ "record.json" \in written
    /\ options = [startFrame |-> Undefined, totalFrames |-> Num(100)]
    /\ "startFrame" \notin DOMAIN recordJson
    /\ recordJson["endFrame"] = 0 - 23
\* C14: the scratch directory exists whenever a file is written into it, both
\* input.slp (the bytes of the buffer) and record.json are written when the
\* engine is spawned, and the directory is removed only once the supervisor
\* has returned.
C14_Ordering ==
    /\ [](written # {} => workDir)
    /\ [][written' # written /\ written' # {} => workDir]_vars
    /\ [][~spawned /\ spawned' =>
            /\ written = {"input.slp", "record.json"}
            /\ slpFile = buffer
            /\ recordJson # <<>>]_vars
    /\ [][workDir /\ ~workDir' => spawned /\ pc = "supervised"]_vars

\* C14 witness: a run that created the directory, wrote both files, spawned
\* the engine, saw the supervisor return and removed the directory.
C14_Witness ==
    /\ pc = "done"
    /\ spawned
    /\ recordJson # <<>>
    /\ Len(slpFile) > 0
    /\ ~workDir
\* C15: once latestFrame is defined it stays defined and never goes from a
\* number to a smaller number or to a non-number, in whatever order the
\* frames arrive.
C15_LatestNeverDecreases ==
    [][latestFrame # Undefined =>
        /\ latestFrame' # Undefined
        /\ IsNum(latestFrame) => (IsNum(latestFrame') /\ latestFrame'.n >= latestFrame.n)]_vars

\* C15 witness: a prefixed line with a frame below latestFrame was consumed
\* after a higher one.
C15_Witness ==
    /\ nLines >= 2
    /\ HasPrefix(stdoutLine)
    /\ IsNum(LineFrame(stdoutLine))
    /\ IsNum(latestFrame)
    /\ LineFrame(stdoutLine).n < latestFrame.n

\* the frame numbers a consumed line contributes: its integer when it is
\* prefixed and parses, nothing otherwise
ParsedFrames(line) ==
    IF HasPrefix(line) /\ IsNum(LineFrame(line)) THEN {LineFrame(line)} ELSE {}

\* C16: recordedFrames grows by exactly the frame numbers parsed from the
\* prefixed lines consumed; latestFrame is undefined while the set is empty
\* and is its maximum element otherwise.
C16_ProgressState ==
    /\ [](recordedFrames = {} => latestFrame = Undefined)
    /\ [](recordedFrames # {} =>
            /\ latestFrame \in recordedFrames
            /\ \A f \in recordedFrames : IsNum(f) /\ JsGreaterEq(latestFrame, f.n))
    /\ [][LineConsumed =>
            recordedFrames' = recordedFrames \cup ParsedFrames(stdoutLine')]_vars

\* the first 15 characters of the line are the progress marker
BeginsWithMarker(line) ==
    Len(line) >= 15 /\ \A i \in 1..15 : line[i] = PREFIX[i]

\* C17: a line that does not begin with the marker changes neither
\* recordedFrames nor latestFrame, requests no termination and leaves the
\* loop running.
C17_UnprefixedIgnored ==
    [][(LineConsumed /\ ~BeginsWithMarker(stdoutLine')) =>
        /\ recordedFrames' = recordedFrames
        /\ latestFrame' = latestFrame
        /\ killCount' = killCount
        /\ pc' = "watch"]_vars

\* C17 witness: chatter holding the marker past its start was consumed after
\* progress had been recorded, and the loop is still watching.
C17_Witness ==
    /\ nLines >= 2
    /\ stdoutLine = MarkedChatter
    /\ IsNum(latestFrame)
    /\ pc = "watch"
\* C18: every iteration of the walk moves the cursor strictly forward or
\* makes it NaN, which ends the loop, so the walk never takes more iterations
\* than the buffer has bytes: it ends on every buffer, with codes missing
\* from the table and with an empty table too.
C18_WalkTerminates ==
    /\ [][walkSteps' # walkSteps =>
            (pos' = NaN \/ (IsNum(pos') /\ pos'.n > pos.n))]_vars
    /\ [](pos = NaN => ~WalkContinues(buffer, pos))
    /\ [](walkSteps <= Len(buffer))

\* C18 witness: the walk of a replay of the current format with an empty
\* table has ended after one iteration.
C18_Witness ==
    /\ pc = "write"
    /\ rawPosition = 15
    /\ Len(buffer) > 15
    /\ DOMAIN messageSizes = {}
    /\ walkSteps = 1
\* C19: when the supervisor fails after the engine was started, a
\* termination request has been issued before the failure surfaces.
C19_KillBeforeFailure ==
    (spawned /\ outcome = "threw" /\ ~TargetReached) => killCount >= 1

\* C20: the buffer stays the bytes read from the input file through the
\* walk, the walk changes neither the buffer nor the size table, and
\* input.slp holds the bytes of the input file.
C20_BufferReadOnly ==
    /\ [](pc \in {"walk", "write", "json", "stats"} => buffer = inputFile)
    /\ []("input.slp" \in written => slpFile = inputFile)
    /\ [][walkSteps' # walkSteps =>
            (buffer' = buffer /\ messageSizes' = messageSizes)]_vars

\* C20 witness: a legacy replay with a non-zero game start payload was
\* walked in two iterations and written to input.slp.
C20_Witness ==
    /\ "input.slp" \in written
    /\ walkSteps = 2
    /\ Len(inputFile) > 105
    /\ inputFile[1] = 54
    /\ inputFile[105] = 1
    /\ slpFile = inputFile
====
